---- MODULE Spec2Model ----
(***************************************************************************)
(* Model of google-money-calc (main.go): the Money value model, the        *)
(* integer <-> Money conversions, the three multiplication routines Mul,   *)
(* Mulv2 and MulNew, and DivideBy100.                                      *)
(*                                                                         *)
(* The program is a library of pure functions.  Each specification below   *)
(* draws the arguments of a call in Init and has one action per function,  *)
(* which applies the function and records what it returned.                *)
(*                                                                         *)
(* Go's int64 and float64 do not fit the integers of the model checker,    *)
(* so the arithmetic of the program is modelled explicitly:                *)
(*   - a natural number is a little-endian sequence of limbs in base 2^15  *)
(*     without leading zero limbs (operators B...);                        *)
(*   - an int64 is a sign and a magnitude (operators Z...); the arguments  *)
(*     are bounded so that no int64 operation of the program overflows;    *)
(*   - a float64 is sign * mantissa * 2^exponent with a 53-bit mantissa,   *)
(*     every operation rounded to nearest, ties to even, as IEEE 754       *)
(*     prescribes (operators F...).  Subnormals, infinities and NaN lie     *)
(*     outside the bounded arguments.                                      *)
(***************************************************************************)
EXTENDS Integers, Sequences, FiniteSets, TLC

(***************************************************************************)
(* Natural numbers of arbitrary size.                                      *)
(***************************************************************************)
Base == 2 ^ 15

Max(x, y) == IF x >= y THEN x ELSE y
Min(x, y) == IF x <= y THEN x ELSE y

RECURSIVE BNorm(_)
BNorm(a) ==
    IF a = <<>> THEN <<>>
    ELSE IF a[Len(a)] = 0 THEN BNorm(SubSeq(a, 1, Len(a) - 1))
    ELSE a

RECURSIVE BFromInt(_)
BFromInt(n) == IF n = 0 THEN <<>> ELSE <<n % Base>> \o BFromInt(n \div Base)

RECURSIVE BToInt(_)
BToInt(a) == IF a = <<>> THEN 0 ELSE Head(a) + Base * BToInt(Tail(a))

RECURSIVE BAddC(_, _, _)
BAddC(a, b, c) ==
    IF a = <<>> /\ b = <<>> THEN (IF c = 0 THEN <<>> ELSE <<c>>)
    ELSE IF b = <<>> /\ c = 0 THEN a
    ELSE IF a = <<>> /\ c = 0 THEN b
    ELSE LET x == IF a = <<>> THEN 0 ELSE Head(a)
             y == IF b = <<>> THEN 0 ELSE Head(b)
             s == x + y + c
         IN  <<s % Base>> \o BAddC(IF a = <<>> THEN <<>> ELSE Tail(a),
                                   IF b = <<>> THEN <<>> ELSE Tail(b),
                                   s \div Base)

BAdd(a, b) == BAddC(a, b, 0)

\* a - b - c for a >= b + c; the result may carry leading zero limbs.
RECURSIVE BSubC(_, _, _)
BSubC(a, b, c) ==
    IF b = <<>> /\ c = 0 THEN a
    ELSE LET y == IF b = <<>> THEN 0 ELSE Head(b)
             d == Head(a) - y - c
         IN  <<d % Base>> \o BSubC(Tail(a),
                                   IF b = <<>> THEN <<>> ELSE Tail(b),
                                   IF d < 0 THEN 1 ELSE 0)

BSub(a, b) == BNorm(BSubC(a, b, 0))

\* -1, 0, 1 as a < b, a = b, a > b.
RECURSIVE BCmpFrom(_, _, _)
BCmpFrom(a, b, i) ==
    IF i = 0 THEN 0
    ELSE IF a[i] < b[i] THEN -1
    ELSE IF a[i] > b[i] THEN 1
    ELSE BCmpFrom(a, b, i - 1)

BCmp(a, b) ==
    IF Len(a) < Len(b) THEN -1
    ELSE IF Len(a) > Len(b) THEN 1
    ELSE BCmpFrom(a, b, Len(a))

\* a * k + c for 0 <= k, c < Base.
RECURSIVE BMulSmallC(_, _, _)
BMulSmallC(a, k, c) ==
    IF a = <<>> THEN (IF c = 0 THEN <<>> ELSE <<c>>)
    ELSE LET p == Head(a) * k + c
         IN  <<p % Base>> \o BMulSmallC(Tail(a), k, p \div Base)

BMulSmall(a, k) == IF k = 0 THEN <<>> ELSE BMulSmallC(a, k, 0)

RECURSIVE BMul(_, _)
BMul(a, b) ==
    IF a = <<>> \/ b = <<>> THEN <<>>
    ELSE LET rest == BMul(a, Tail(b))
         IN  BAdd(BMulSmall(a, Head(b)),
                  IF rest = <<>> THEN <<>> ELSE <<0>> \o rest)

\* Quotient and remainder of the limbs i..Len(a) of a by a limb-sized k.
RECURSIVE BDivSmallFrom(_, _, _)
BDivSmallFrom(a, k, i) ==
    IF i > Len(a) THEN [q |-> <<>>, r |-> 0]
    ELSE LET up  == BDivSmallFrom(a, k, i + 1)
             cur == up.r * Base + a[i]
         IN  [q |-> <<cur \div k>> \o up.q, r |-> cur % k]

BDivSmall(a, k) ==
    LET qr == BDivSmallFrom(a, k, 1) IN [q |-> BNorm(qr.q), r |-> qr.r]


BShl(a, n) ==
    IF a = <<>> THEN <<>>
    ELSE [i \in 1..(n \div 15) |-> 0] \o BMulSmall(a, 2 ^ (n % 15))

BShr(a, n) ==
    IF Len(a) <= n \div 15 THEN <<>>
    ELSE BDivSmall(SubSeq(a, n \div 15 + 1, Len(a)), 2 ^ (n % 15)).q

\* a mod 2^n.
BLowBits(a, n) ==
    IF Len(a) <= n \div 15 THEN a
    ELSE BNorm(SubSeq(a, 1, n \div 15) \o <<a[n \div 15 + 1] % (2 ^ (n % 15))>>)

RECURSIVE LimbBits(_)
LimbBits(x) == IF x = 0 THEN 0 ELSE 1 + LimbBits(x \div 2)

BBitLen(a) == IF a = <<>> THEN 0 ELSE 15 * (Len(a) - 1) + LimbBits(a[Len(a)])

BIsOdd(a) == a # <<>> /\ a[1] % 2 = 1

\* The largest q with q * b <= r, for r < b * Base and b's top limb at least
\* Base / 2: the estimate from the top limbs is at most two too large.
RECURSIVE QCorrect(_, _, _)
QCorrect(r, b, q) ==
    IF BCmp(BMulSmall(b, q), r) > 0 THEN QCorrect(r, b, q - 1) ELSE q


\* The next quotient limb, from the estimate by the top limbs of r and b.
QDigit(r, b) ==
    LET n  == Len(b)
        hi == IF Len(r) > n THEN r[n + 1] ELSE 0
        lo == IF Len(r) >= n THEN r[n] ELSE 0
    IN  QCorrect(r, b, Min(Base - 1, (hi * Base + lo) \div b[n]))


\* One step of schoolbook division: the remainder is extended by the next
\* limb x of the dividend and yields one limb of the quotient (kept most
\* significant limb first).
BDivStep(x, b, up) ==
    LET cur == BNorm(<<x>> \o up.r)
    IN  [q |-> up.q \o <<QDigit(cur, b)>>,
         r |-> BSub(cur, BMulSmall(b, QDigit(cur, b)))]

\* Division of the limbs i..Len(a) of a by b.  The top Len(b) - 1 limbs of a
\* are less than b and start as the remainder.
RECURSIVE BDivLoop(_, _, _)
BDivLoop(a, b, i) ==
    IF i > Len(a) - (Len(b) - 1)
    THEN [q |-> <<>>, r |-> BNorm(SubSeq(a, i, Len(a)))]
    ELSE BDivStep(a[i], b, BDivLoop(a, b, i + 1))


BDivResult(qr, s) ==
    [q |-> BNorm([i \in 1..Len(qr.q) |-> qr.q[Len(qr.q) + 1 - i]]),
     r |-> BShr(qr.r, s)]


\* Quotient and remainder of a by b # 0 (schoolbook division on limbs, the
\* operands first scaled so that b's top limb is at least Base / 2).
BDivMod(a, b) ==
    IF BCmp(a, b) < 0 THEN [q |-> <<>>, r |-> a]
    ELSE BDivResult(BDivLoop(BShl(a, 15 - LimbBits(b[Len(b)])),
                             BShl(b, 15 - LimbBits(b[Len(b)])), 1),
                    15 - LimbBits(b[Len(b)]))

\* 10^n.
RECURSIVE BPow10(_)
BPow10(n) == IF n = 0 THEN <<1>> ELSE BMulSmall(BPow10(n - 1), 10)

(***************************************************************************)
(* int64: a sign and a magnitude; zero is never negative.                  *)
(***************************************************************************)
ZMake(neg, mag) == [neg |-> neg /\ mag # <<>>, mag |-> mag]

ZFromInt(n) == IF n < 0 THEN ZMake(TRUE, BFromInt(-n)) ELSE ZMake(FALSE, BFromInt(n))

\* The integer of the model for an int64 that fits an int32 (the magnitude
\* 2^31 of the least int32 is itself out of the model's range).
ZToInt(z) == IF z.neg THEN -BToInt(BSub(z.mag, <<1>>)) - 1 ELSE BToInt(z.mag)

ZZero == ZMake(FALSE, <<>>)

ZIsZero(z) == z.mag = <<>>

ZIsNeg(z) == z.neg

ZIsPos(z) == ~z.neg /\ z.mag # <<>>

ZNeg(z) == ZMake(~z.neg, z.mag)

ZAdd(a, b) ==
    IF a.neg = b.neg THEN ZMake(a.neg, BAdd(a.mag, b.mag))
    ELSE IF BCmp(a.mag, b.mag) >= 0 THEN ZMake(a.neg, BSub(a.mag, b.mag))
    ELSE ZMake(b.neg, BSub(b.mag, a.mag))

ZSub(a, b) == ZAdd(a, ZNeg(b))

ZMul(a, b) == ZMake(a.neg # b.neg, BMul(a.mag, b.mag))

\* Go's / and % on integers: the quotient truncated toward zero, the
\* remainder with the sign of the dividend.
ZQuo(a, b) == ZMake(a.neg # b.neg, BDivMod(a.mag, b.mag).q)

ZRem(a, b) == ZMake(a.neg, BDivMod(a.mag, b.mag).r)

ZCmp(a, b) ==
    IF a.neg # b.neg THEN (IF a.neg THEN -1 ELSE 1)
    ELSE IF a.neg THEN BCmp(b.mag, a.mag)
    ELSE BCmp(a.mag, b.mag)

ZFits64(z) ==
    \/ BBitLen(z.mag) <= 63
    \/ z.neg /\ z.mag = BShl(<<1>>, 63)

\* The natural number u < 2^w read as a two's complement number of w bits.
ZSigned(u, w) ==
    IF BBitLen(u) < w THEN ZMake(FALSE, u) ELSE ZMake(TRUE, BSub(BShl(<<1>>, w), u))


\* The low w bits of z in two's complement: the residue of z modulo 2^w,
\* read as a signed number.
ZWrap(z, w) ==
    ZSigned(IF z.neg /\ BLowBits(z.mag, w) # <<>>
            THEN BSub(BShl(<<1>>, w), BLowBits(z.mag, w))
            ELSE BLowBits(z.mag, w),
            w)

\* The conversion int32(z) of an int64: the low 32 bits in two's complement.
ZWrap32(z) == ZToInt(ZWrap(z, 32))

\* The result of an int64 operation: the low 64 bits in two's complement.
ZWrap64(z) == IF ZFits64(z) THEN z ELSE ZWrap(z, 64)

(***************************************************************************)
(* float64: neg, a mantissa m with exactly 53 bits and an exponent e stand *)
(* for (-1)^neg * m * 2^e; zero has the empty mantissa.                    *)
(***************************************************************************)
FZero == [neg |-> FALSE, m |-> <<>>, e |-> 0]

FIsZero(a) == a.m = <<>>

\* The mantissa q of 53 bits, or 2^53 after a carry, times 2^e.
FPack(neg, q, e) ==
    IF BBitLen(q) > 53 THEN [neg |-> neg, m |-> BShr(q, 1), e |-> e + 1]
    ELSE [neg |-> neg, m |-> q, e |-> e]

\* q * 2^e plus a discarded part that compares as c with half a unit of q
\* (and is, with sticky, followed by more): to nearest, ties to even.
FRoundTo(neg, q, c, e, sticky) ==
    FPack(neg,
          IF c > 0 \/ (c = 0 /\ (sticky \/ BIsOdd(q))) THEN BAdd(q, <<1>>) ELSE q,
          e)


\* mag * 2^e (plus, with sticky, a nonzero amount below the last bit of
\* mag) rounded to 53 bits, to nearest, ties to even.
FRound(neg, mag, e, sticky) ==
    LET n == BBitLen(mag)
    IN  IF n = 0 THEN FZero
        ELSE IF n <= 53
        THEN [neg |-> neg, m |-> BShl(mag, 53 - n), e |-> e - (53 - n)]
        ELSE FRoundTo(neg, BShr(mag, n - 53),
                      BCmp(BLowBits(mag, n - 53), BShl(<<1>>, n - 54)),
                      e + n - 53, sticky)

\* The conversion float64(z) of an int64.
FFromZ(z) == FRound(z.neg, z.mag, 0, FALSE)

FFromInt(n) == FFromZ(ZFromInt(n))


FDivRound(neg, qr, e) == FRound(neg, qr.q, e, qr.r # <<>>)


\* The correctly rounded quotient num / den of two naturals, times 2^e.
FDivNat(neg, num, den, e) ==
    LET s == Max(0, 56 + BBitLen(den) - BBitLen(num))
    IN  IF num = <<>> THEN FZero
        ELSE FDivRound(neg, BDivMod(BShl(num, s), den), e - s)

FMul(a, b) ==
    IF FIsZero(a) \/ FIsZero(b) THEN FZero
    ELSE FRound(a.neg # b.neg, BMul(a.m, b.m), a.e + b.e, FALSE)

FDiv(a, b) ==
    IF FIsZero(a) THEN FZero
    ELSE FDivNat(a.neg # b.neg, a.m, b.m, a.e - b.e)

\* The exact value of a float as an integer multiple of 2^e0, e0 <= a.e.
FScaled(a, e0) == ZMake(a.neg, BShl(a.m, a.e - e0))

FMinExp(a, b) ==
    IF FIsZero(a) THEN b.e ELSE IF FIsZero(b) THEN a.e ELSE Min(a.e, b.e)

FFromScaled(z, e0) == FRound(z.neg, z.mag, e0, FALSE)


FAdd(a, b) ==
    LET e0 == FMinExp(a, b)
    IN  FFromScaled(ZAdd(FScaled(a, e0), FScaled(b, e0)), e0)

FSub(a, b) == FAdd(a, IF FIsZero(b) THEN b ELSE [b EXCEPT !.neg = ~b.neg])


FCmp(a, b) ==
    LET e0 == FMinExp(a, b) IN ZCmp(FScaled(a, e0), FScaled(b, e0))


\* The conversion int64(a) of a float64: truncation toward zero.
FToZ(a) ==
    IF FIsZero(a) THEN ZZero
    ELSE IF a.e >= 0 THEN ZMake(a.neg, BShl(a.m, a.e))
    ELSE ZMake(a.neg, BShr(a.m, -a.e))


\* math.Modf: the integer part and the fractional part, both with a's sign.
Modf(a) == [int |-> FFromZ(FToZ(a)), frac |-> FSub(a, FFromZ(FToZ(a)))]


\* math.Pow10(n): for |n| <= 31 the table entry 10^n, correctly rounded, or
\* 1 divided by the table entry 10^-n.
Pow10(n) ==
    IF n >= 0 THEN FRound(FALSE, BPow10(n), 0, FALSE)
    ELSE FDiv(FFromInt(1), FRound(FALSE, BPow10(-n), 0, FALSE))


(***************************************************************************)
(* Decimal text.  A string is a sequence of one-character strings.         *)
(* strconv.FormatFloat(v, fmt, -1, 64) writes the shortest decimal that    *)
(* parses back to v; strconv.ParseFloat returns the float64 nearest to the *)
(* decimal it reads.                                                       *)
(***************************************************************************)
DigitChars == <<"0", "1", "2", "3", "4", "5", "6", "7", "8", "9">>

DigitChar(d) == DigitChars[d + 1]

IsDigit(c) == \E d \in 0..9 : DigitChars[d + 1] = c

DigitVal(c) == CHOOSE d \in 0..9 : DigitChars[d + 1] = c


\* The decimal digits of a natural number, most significant first.
RECURSIVE BDigits(_)
BDigits(a) ==
    IF a = <<>> THEN <<>>
    ELSE BDigits(BDivSmall(a, 10).q) \o <<DigitChar(BDivSmall(a, 10).r)>>

\* The natural number a digit string denotes.
RECURSIVE BFromDigits(_)
BFromDigits(s) ==
    IF s = <<>> THEN <<>>
    ELSE BMulSmallC(BFromDigits(SubSeq(s, 1, Len(s) - 1)), 10, DigitVal(s[Len(s)]))

RECURSIVE StripZeros(_)
StripZeros(s) ==
    IF s # <<>> /\ s[Len(s)] = "0" THEN StripZeros(SubSeq(s, 1, Len(s) - 1)) ELSE s

\* The float64 nearest to n * 10^k (ties to even).
ParseDec(neg, n, k) ==
    FDivNat(neg, BMul(n, BPow10(Max(k, 0))), BPow10(Max(-k, 0)), 0)

\* a * 10^k, for a > 0, is the fraction DecNum(a, k) / DecDen(a, k).
DecNum(a, k) == BMul(BShl(a.m, Max(a.e, 0)), BPow10(Max(k, 0)))

DecDen(a, k) == BMul(BShl(<<1>>, Max(-a.e, 0)), BPow10(Max(-k, 0)))

\* Whether a > 0 is at least 10^k.
GePow10(a, k) == BCmp(DecNum(a, -k), DecDen(a, -k)) >= 0

\* The least dp from the given one on with a < 10^dp.
RECURSIVE DecimalPointFrom(_, _)
DecimalPointFrom(a, dp) ==
    IF GePow10(a, dp) THEN DecimalPointFrom(a, dp + 1) ELSE dp

\* The position dp of the decimal point of a > 0: 10^(dp-1) <= a < 10^dp.
\* The estimate from the binary exponent is at most one too large.
DecimalPoint(a) == DecimalPointFrom(a, ((a.e + 52) * 30103) \div 100000 - 1)

ScaledParts(qr, den) == [q |-> qr.q, half |-> BCmp(BShl(qr.r, 1), den)]

\* floor(a * 10^k) and how what remains compares with one half, for a > 0.
Scaled(a, k) == ScaledParts(BDivMod(DecNum(a, k), DecDen(a, k)), DecDen(a, k))

\* strconv's digits for the decimal whose digits are ds, times 10^k: the
\* digit string d without trailing zeros and the position dp of the decimal
\* point, the value being 0.d * 10^dp.
DigitsAt(ds, k) == [d |-> StripZeros(ds), dp |-> Len(ds) + k]

\* The n-digit decimal nearest to a > 0 that parses back to a, if there is
\* one, and otherwise the shortest longer one (strconv's shortest decimal).
\* sc.q and sc.q + 1 are the n-digit decimals just below and above a, and
\* ok the ones of them that parse back to a.
RECURSIVE ShortestFrom(_, _, _)
ShortestPick(a, dp, n, sc, ok) ==
    IF ok = {} THEN ShortestFrom(a, dp, n + 1)
    ELSE DigitsAt(BDigits(IF ok # {sc.q, BAdd(sc.q, <<1>>)} THEN CHOOSE c \in ok : TRUE
                          ELSE IF sc.half < 0 \/ (sc.half = 0 /\ ~BIsOdd(sc.q)) THEN sc.q
                          ELSE BAdd(sc.q, <<1>>)),
                  dp - n)

ShortestNear(a, dp, n, sc) ==
    ShortestPick(a, dp, n, sc,
                 {c \in {sc.q, BAdd(sc.q, <<1>>)} : ParseDec(FALSE, c, dp - n) = a})

ShortestFrom(a, dp, n) == ShortestNear(a, dp, n, Scaled(a, n - dp))

\* strconv's digits of a float.
ShortestDigits(a) ==
    IF FIsZero(a) THEN [d |-> <<>>, dp |-> 0]
    ELSE ShortestFrom(a, DecimalPoint(a), 1)

Repeat(c, n) == [i \in 1..n |-> c]

\* strconv's %f: the integer digits, then prec fraction digits.
FmtF(neg, digs, prec) ==
    LET nd   == Len(digs.d)
        m    == Min(nd, digs.dp)
        int  == IF digs.dp > 0
                THEN SubSeq(digs.d, 1, m) \o Repeat("0", digs.dp - m)
                ELSE <<"0">>
        frac == IF prec > 0
                THEN <<".">> \o [i \in 1..prec |->
                         IF 0 <= digs.dp + i - 1 /\ digs.dp + i - 1 < nd
                         THEN digs.d[digs.dp + i] ELSE "0"]
                ELSE <<>>
    IN  (IF neg THEN <<"-">> ELSE <<>>) \o int \o frac

\* strconv's %E: one digit, the prec digits after the point, the exponent
\* with a sign and at least two digits.
FmtE(neg, digs, prec) ==
    LET nd    == Len(digs.d)
        first == IF nd # 0 THEN <<digs.d[1]>> ELSE <<"0">>
        m     == Min(nd, prec + 1)
        more  == IF prec > 0
                 THEN <<".">> \o SubSeq(digs.d, 2, m) \o Repeat("0", prec + 1 - Max(m, 1))
                 ELSE <<>>
        exp   == IF nd = 0 THEN 0 ELSE digs.dp - 1
        abs   == IF exp < 0 THEN -exp ELSE exp
        dd    == IF abs < 10 THEN <<"0", DigitChar(abs)>>
                 ELSE BDigits(BFromInt(abs))
    IN  (IF neg THEN <<"-">> ELSE <<>>) \o first \o more
            \o <<"E", IF exp < 0 THEN "-" ELSE "+">> \o dd

\* %f with the precision of the shortest format.
FmtShortestF(neg, digs) == FmtF(neg, digs, Max(Len(digs.d) - digs.dp, 0))

\* strconv.FormatFloat(v, 'f', -1, 64).
FormatFloatF(v) == FmtShortestF(v.neg, ShortestDigits(v))

\* %E when the exponent is below -4 or at least 6 (the precision the
\* shortest format decides with), else %f.
FmtShortestG(neg, digs) ==
    IF digs.dp - 1 < -4 \/ digs.dp - 1 >= 6
    THEN FmtE(neg, digs, Len(digs.d) - 1)
    ELSE FmtShortestF(neg, digs)

\* strconv.FormatFloat(v, 'G', -1, 64).
FormatFloatG(v) == FmtShortestG(v.neg, ShortestDigits(v))

\* The first position of character c in s, 0 when there is none
\* (strings.IndexByte, counted from 1).
IndexByte(s, c) ==
    LET at == {i \in 1..Len(s) : s[i] = c}
    IN  IF at = {} THEN 0 ELSE CHOOSE i \in at : \A j \in at : i <= j

\* strings.Split(s, "."): the pieces of s between its points.
RECURSIVE Split(_)
Split(s) ==
    LET i == IndexByte(s, ".")
    IN  IF i = 0 THEN <<s>>
        ELSE <<SubSeq(s, 1, i - 1)>> \o Split(SubSeq(s, i + 1, Len(s)))

AllDigits(s) == \A i \in 1..Len(s) : IsDigit(s[i])

\* The value of the integer digits, the fraction digits and the exponent
\* (its sign and its digits; hasExp when there is an E).
ParseFields(int, frac, eneg, etxt, hasExp) ==
    IF /\ AllDigits(int) /\ AllDigits(frac) /\ AllDigits(etxt)
       /\ Len(int) + Len(frac) > 0
       /\ hasExp => etxt # <<>>
    THEN ParseDec(FALSE, BFromDigits(int \o frac),
                  (IF eneg THEN -1 ELSE 1) * BToInt(BFromDigits(etxt)) - Len(frac))
    ELSE FZero

\* mant is the text before the E, exp the text after it.
ParseSplit(mant, exp, hasExp) ==
    LET ip == IndexByte(mant, ".")
    IN  ParseFields(IF ip = 0 THEN mant ELSE SubSeq(mant, 1, ip - 1),
                    IF ip = 0 THEN <<>> ELSE SubSeq(mant, ip + 1, Len(mant)),
                    exp # <<>> /\ exp[1] = "-",
                    IF exp # <<>> /\ exp[1] \in {"+", "-"} THEN Tail(exp) ELSE exp,
                    hasExp)


\* strconv.ParseFloat(s, 64) of [digits][.digits][E(+|-)digits]; the error
\* of a malformed s is dropped by the caller, which then reads 0.
ParseFloat(s) ==
    LET ie == IndexByte(s, "E")
    IN  ParseSplit(IF ie = 0 THEN s ELSE SubSeq(s, 1, ie - 1),
                   IF ie = 0 THEN <<>> ELSE SubSeq(s, ie + 1, Len(s)),
                   ie # 0)


(***************************************************************************)
(* The program.  A *Money is a record with the fields of the struct, or    *)
(* Nil.  Units is an int64 (a Z value), Nanos an int32 (an integer of the  *)
(* model, which has the same range).                                       *)
(***************************************************************************)
nanosMin == -999999999
nanosMax == 999999999
nanosMod == 1000000000

Nil == [nil |-> TRUE]

Money(units, nanos, currencyCode) ==
    [Units |-> units, Nanos |-> nanos, CurrencyCode |-> currencyCode]

GetCurrencyCode(x) == IF x # Nil THEN x.CurrencyCode ELSE ""

GetUnits(x) == IF x # Nil THEN x.Units ELSE ZZero

GetNanos(x) == IF x # Nil THEN x.Nanos ELSE 0

ErrInvalidMultiplierProvided == "multiplier provided is zero or negative which is invalid"

ErrInvalidValue == "one of the specified money values is invalid"

NoError == "nil"

\* IsGreaterThan without the return on a.Units < b.Units.
IsGreaterThanNoLess(a, b) ==
    IF a = Nil THEN FALSE
    ELSE IF b = Nil THEN TRUE
    ELSE IF ZCmp(a.Units, b.Units) > 0 THEN TRUE
    ELSE a.Nanos > b.Nanos

IsGreaterThan(a, b) ==
    IF a = Nil THEN FALSE
    ELSE IF b = Nil THEN TRUE
    ELSE IF ZCmp(a.Units, b.Units) > 0 THEN TRUE
    ELSE IF ZCmp(a.Units, b.Units) < 0 THEN FALSE
    ELSE a.Nanos > b.Nanos

\* fromInt without the scaling of the remainder to nanos.
fromIntUnscaled(amount, currencyMultiplier, currencyCode) ==
    IF ZIsZero(amount) THEN Money(ZZero, 0, currencyCode)
    ELSE Money(ZQuo(amount, currencyMultiplier),
               ZWrap32(ZRem(amount, currencyMultiplier)), currencyCode)

fromInt(amount, currencyMultiplier, currencyCode) ==
    IF ZIsZero(amount) THEN Money(ZZero, 0, currencyCode)
    ELSE LET nanos         == FFromZ(ZRem(amount, currencyMultiplier))
             nanosAdjusted == FMul(nanos, FDiv(Pow10(9), FFromZ(currencyMultiplier)))
             units         == ZQuo(amount, currencyMultiplier)
         IN  Money(units, ZWrap32(FToZ(nanosAdjusted)), currencyCode)

asInt(money, currencyMultiplier) ==
    IF money = Nil THEN ZZero
    ELSE LET nanosAdjustedFloat ==
                 FMul(FMul(FFromInt(money.Nanos), Pow10(-9)), FFromZ(currencyMultiplier))
             nanosAdjusted ==
                 IF money.Nanos = 0 THEN ZZero ELSE FToZ(nanosAdjustedFloat)
         IN  ZAdd(ZMul(money.Units, currencyMultiplier), nanosAdjusted)

\* The number of characters of s after its first point.
DecPlaces(s) == IF IndexByte(s, ".") > 0 THEN Len(s) - IndexByte(s, ".") ELSE 0

numDecPlaces(v) == DecPlaces(FormatFloatF(v))

FromInt64(amount, currencyMultiplier, currencyCode) ==
    fromInt(amount, currencyMultiplier, currencyCode)

AsInt64(money, currencyMultiplier) == asInt(money, currencyMultiplier)

validNanos(nanos) == nanosMin <= nanos /\ nanos <= nanosMax

signMatches(m) ==
    \/ GetNanos(m) = 0
    \/ ZIsZero(GetUnits(m))
    \/ (GetNanos(m) < 0) = ZIsNeg(GetUnits(m))

\* IsValid without the range check of the nanos.
IsValidSignOnly(m) == signMatches(m)

IsValid(m) == signMatches(m) /\ validNanos(GetNanos(m))

\* Go's && binds tighter than ||.
IsPositive(m) ==
    \/ (IsValid(m) /\ ZIsPos(GetUnits(m)))
    \/ (ZIsZero(GetUnits(m)) /\ GetNanos(m) > 0)

IsZero(m) == ZIsZero(GetUnits(m)) /\ GetNanos(m) = 0


(***************************************************************************)
(* Multiplication.  A call yields the returned pair (money, err) together  *)
(* with the locals the function held when it returned.                     *)
(***************************************************************************)
NoLocals == [intMul |-> ZZero, decMul |-> ZZero, powerOf10 |-> ZZero, nanosMul |-> ZZero]

Failure(err) == [money |-> Nil, err |-> err, general |-> FALSE, locals |-> NoLocals]

Success(money) == [money |-> money, err |-> NoError, general |-> FALSE, locals |-> NoLocals]

\* The guard r <= 0 in the place of r < 0.
InvalidMultiplierOrZero(r) == r.neg \/ FIsZero(r)

\* r < 0
InvalidMultiplier(r) == FCmp(r, FZero) < 0

\* The zero Money without the currency code of l.
ZeroNoCurrency(l) == Money(ZZero, 0, "")

\* &Money{CurrencyCode: l.CurrencyCode, Units: 0, Nanos: 0}
ZeroMoney(l) == Money(ZZero, 0, l.CurrencyCode)

\* newDecMulF, and the increment of decMul when it falls short of decMulF by
\* at least threshold percent.
DecomposeCorrected(intMul, decMul, decMulF, powerOf10, threshold) ==
    LET newDecMulF == FDiv(FFromZ(decMul), FFromZ(powerOf10))
        percentageChange ==
            FMul(FDiv(FSub(decMulF, newDecMulF), decMulF), FFromInt(100))
    IN  [intMul |-> intMul,
         decMul |-> IF /\ FCmp(newDecMulF, decMulF) < 0
                       /\ FCmp(percentageChange, threshold) >= 0
                    THEN ZAdd(decMul, ZFromInt(1))
                    ELSE decMul]


DecomposeParts(mf, powerOf10, threshold) ==
    DecomposeCorrected(FToZ(mf.int), FToZ(FMul(mf.frac, FFromZ(powerOf10))),
                       mf.frac, powerOf10, threshold)

\* intMul and decMul of r for the given power of ten; decMul is incremented
\* when the truncated fraction deviates by at least threshold percent.
Decompose(r, powerOf10, threshold) == DecomposeParts(Modf(r), powerOf10, threshold)

\* (units >= 0 && nanos >= 0) || (units < 0 && nanos <= 0)
SameSign(units, nanos) ==
    \/ ~ZIsNeg(units) /\ ~ZIsNeg(nanos)
    \/ ZIsNeg(units) /\ ~ZIsPos(nanos)

NormalizedUnits(units, nanos) ==
    IF SameSign(units, nanos) THEN ZAdd(units, ZQuo(nanos, ZFromInt(nanosMod)))
    ELSE IF ZIsPos(units) THEN ZSub(units, ZFromInt(1))
    ELSE IF ZIsNeg(units) THEN ZAdd(units, ZFromInt(1))
    ELSE units

NormalizedNanos(units, nanos) ==
    IF SameSign(units, nanos) THEN ZRem(nanos, ZFromInt(nanosMod))
    ELSE IF ZIsPos(units) THEN ZAdd(nanos, ZFromInt(nanosMod))
    ELSE IF ZIsNeg(units) THEN ZSub(nanos, ZFromInt(nanosMod))
    ELSE nanos

\* The carry or borrow between units and nanos, and the returned Money.
Normalize(units, nanos, currencyCode) ==
    Money(ZWrap64(NormalizedUnits(units, nanos)),
          ZWrap32(ZWrap64(NormalizedNanos(units, nanos))), currencyCode)

\* What a call past the guards returns, with the locals it held.
Returned(l, d, powerOf10, nanosMul, units, nanos) ==
    [money   |-> Normalize(units, nanos, GetCurrencyCode(l)),
     err     |-> NoError,
     general |-> TRUE,
     locals  |-> [intMul |-> d.intMul, decMul |-> d.decMul,
                  powerOf10 |-> powerOf10, nanosMul |-> nanosMul]]

\* int64(l.GetNanos()) * intMul, plus nanosMul
NanosMultiplied(l, intMul, nanosMul) ==
    ZWrap64(ZAdd(ZWrap64(ZMul(ZFromInt(GetNanos(l)), intMul)), nanosMul))

\* int is l.GetUnits() * intMul and prod is l.GetUnits() * decMul.
UnitsParts(int, prod, decMul, powerOf10) ==
    IF ZIsZero(decMul) THEN [int |-> int, dec |-> ZZero]
    ELSE [int |-> ZWrap64(ZAdd(int, FToZ(FDiv(FFromZ(prod), FFromZ(powerOf10))))),
          dec |-> ZRem(prod, powerOf10)]

\* intUnitsMultiplied and decUnitsMultiplied, the same in the three functions.
UnitsMultiplied(l, intMul, decMul, powerOf10) ==
    UnitsParts(ZWrap64(ZMul(GetUnits(l), intMul)),
               ZWrap64(ZMul(GetUnits(l), decMul)), decMul, powerOf10)


MulWithProducts(l, d, powerOf10, nanosMul, um) ==
    Returned(l, d, powerOf10, nanosMul, um.int,
             ZWrap64(ZAdd(ZWrap64(ZMul(um.dec,
                                       FToZ(FDiv(Pow10(9), FFromZ(powerOf10))))),
                          NanosMultiplied(l, d.intMul, nanosMul))))

MulWithMultipliers(l, d, powerOf10) ==
    MulWithProducts(l, d, powerOf10,
                    IF ZIsZero(d.decMul) THEN ZZero
                    ELSE ZQuo(ZWrap64(ZMul(ZFromInt(GetNanos(l)), d.decMul)),
                              powerOf10),
                    UnitsMultiplied(l, d.intMul, d.decMul, powerOf10))

MulWithPower(l, r, powerOf10) ==
    MulWithMultipliers(l, Decompose(r, powerOf10, FFromInt(1)), powerOf10)

\* The general algorithm of Mul, past the guards.  powerOf10 is an int32:
\* the conversion is exact up to nine decimal places of r.
MulGeneral(l, r) == MulWithPower(l, r, FToZ(Pow10(numDecPlaces(r))))

Mul(l, r) ==
    IF InvalidMultiplier(r) THEN Failure(ErrInvalidMultiplierProvided)
    ELSE IF ~IsValid(l) THEN Failure(ErrInvalidValue)
    ELSE IF IsZero(l) \/ FIsZero(r) THEN Success(ZeroMoney(l))
    ELSE MulGeneral(l, r)


\* nanosMul, incremented when nanosMulF exceeds it by more than 0.5
Mulv2NanosMul(nanosMulF) ==
    IF FCmp(FSub(nanosMulF, FFromZ(FToZ(nanosMulF))),
            ParseDec(FALSE, BFromInt(5), -1)) > 0
    THEN ZAdd(FToZ(nanosMulF), ZFromInt(1))
    ELSE FToZ(nanosMulF)

\* int64(float64(decUnitsMultiplied) * math.Pow10(9) / float64(powerOf10))
NanosDecUnitAdjusted(decUnitsMultiplied, powerOf10) ==
    FToZ(FDiv(FMul(FFromZ(decUnitsMultiplied), Pow10(9)), FFromZ(powerOf10)))

Mulv2WithProducts(l, d, powerOf10, nanosMul, um) ==
    Returned(l, d, powerOf10, nanosMul, um.int,
             ZWrap64(ZAdd(NanosDecUnitAdjusted(um.dec, powerOf10),
                          NanosMultiplied(l, d.intMul, nanosMul))))

Mulv2WithMultipliers(l, d, powerOf10) ==
    Mulv2WithProducts(l, d, powerOf10,
                      IF ZIsZero(d.decMul) THEN ZZero
                      ELSE Mulv2NanosMul(FMul(FFromInt(GetNanos(l)),
                                              FDiv(FFromZ(d.decMul), FFromZ(powerOf10)))),
                      UnitsMultiplied(l, d.intMul, d.decMul, powerOf10))

Mulv2WithPower(l, r, powerOf10) ==
    Mulv2WithMultipliers(l, Decompose(r, powerOf10, ParseDec(FALSE, BFromInt(1), -2)),
                         powerOf10)

\* The general algorithm of Mulv2, past the guards.
Mulv2General(l, r) == Mulv2WithPower(l, r, FToZ(Pow10(numDecPlaces(r))))

Mulv2(l, r) ==
    IF InvalidMultiplier(r) THEN Failure(ErrInvalidMultiplierProvided)
    ELSE IF ~IsValid(l) THEN Failure(ErrInvalidValue)
    ELSE IF IsZero(l) \/ FIsZero(r) THEN Success(ZeroMoney(l))
    ELSE Mulv2General(l, r)

MulNewWithProducts(l, d, powerOf10, nanosMul, um) ==
    Returned(l, d, powerOf10, nanosMul, um.int,
             ZWrap64(ZAdd(NanosDecUnitAdjusted(um.dec, powerOf10),
                          NanosMultiplied(l, d.intMul, nanosMul))))

MulNewWithMultipliers(l, d, powerOf10) ==
    MulNewWithProducts(l, d, powerOf10,
                       IF ZIsZero(d.decMul) THEN ZZero
                       ELSE FToZ(FMul(FFromInt(GetNanos(l)),
                                      FDiv(FFromZ(d.decMul), FFromZ(powerOf10)))),
                       UnitsMultiplied(l, d.intMul, d.decMul, powerOf10))

MulNewWithPower(l, r, powerOf10) ==
    MulNewWithMultipliers(l, Decompose(r, powerOf10, FFromInt(1)), powerOf10)

\* The general algorithm of MulNew, past the guards.
MulNewGeneral(l, r) == MulNewWithPower(l, r, FToZ(Pow10(numDecPlaces(r))))

MulNew(l, r) ==
    IF InvalidMultiplier(r) THEN Failure(ErrInvalidMultiplierProvided)
    ELSE IF ~IsValid(l) THEN Failure(ErrInvalidValue)
    ELSE IF IsZero(l) \/ FIsZero(r) THEN Success(ZeroMoney(l))
    ELSE MulNewGeneral(l, r)


\* beforeDecimal, padded to two characters.
Padded(beforeDecimal) ==
    IF Len(beforeDecimal) = 0 THEN <<"0", "0">>
    ELSE IF Len(beforeDecimal) = 1 THEN <<"0">> \o beforeDecimal
    ELSE beforeDecimal

\* sb: the point moved before the last two characters of beforeDecimal.
ShiftedText(beforeDecimal, afterDecimal) ==
    (IF Len(beforeDecimal) > 2
     THEN SubSeq(beforeDecimal, 1, Len(beforeDecimal) - 2) ELSE <<>>)
    \o <<".">>
    \o SubSeq(beforeDecimal, Len(beforeDecimal) - 1, Len(beforeDecimal))
    \o afterDecimal

\* vs[1] of a split without a second piece panics: index out of range.
DivideSplit(vs) ==
    IF Len(vs) < 2 THEN [panic |-> TRUE, value |-> FZero]
    ELSE [panic |-> FALSE, value |-> ParseFloat(ShiftedText(Padded(vs[1]), vs[2]))]

DivideBy100(v) == DivideSplit(Split(FormatFloatG(v)))

(***************************************************************************)
(* The state machine.  Every function of the package is pure: a behaviour  *)
(* draws the arguments of a call, then runs the call and keeps what it     *)
(* returned.  called is the function that ran last, "" before any did.     *)
(***************************************************************************)
VARIABLES args, called, ret

vars == <<args, called, ret>>

NoResult == [none |-> TRUE]

\* Bounds of the inputs.
MaxUnits == 1
MaxIntMul == 3
MaxAmount == 12
MaxShiftN == 60
MaxShiftK == 3

\* The int64 hi * 10^9 + lo.
Int64Of(hi, lo) == ZAdd(ZMul(ZFromInt(hi), ZFromInt(nanosMod)), ZFromInt(lo))

BigUnits == Int64Of(1000000, 31)

UnitsInputs == {ZFromInt(u) : u \in -MaxUnits..MaxUnits} \cup {ZFromInt(19), BigUnits}

\* Nanos in and just outside the range, of both signs.
NanosInputs ==
    {-1000000000, -999999999, -500000000, -5, 0, 5, 130000000, 500000000,
     999999999, 1000000000}

CurrencyCodes == {"EUR", "USD"}

MoneyInputs ==
    {Money(u, n, c) : u \in UnitsInputs, n \in NanosInputs, c \in CurrencyCodes}

\* The fractional digits of the multipliers: .0, .1, .5, .29, .101, .1511
\* and .000000001.
Fractions ==
    {[num |-> 0, places |-> 0], [num |-> 1, places |-> 1], [num |-> 5, places |-> 1],
     [num |-> 29, places |-> 2], [num |-> 101, places |-> 3],
     [num |-> 1511, places |-> 4], [num |-> 1, places |-> 9]}

\* The multipliers, read from decimal text as ReadCsvFile reads the rate.
RateInputs ==
    {ParseDec(FALSE, BAdd(BMul(BFromInt(i), BPow10(f.places)), BFromInt(f.num)),
              -f.places) : i \in 0..MaxIntMul, f \in Fractions}
    \cup {ParseDec(TRUE, BFromInt(1), -2), ParseDec(TRUE, BFromInt(25), -1)}

InitMul ==
    /\ args \in {[l |-> m, r |-> r] : m \in MoneyInputs, r \in RateInputs}
    /\ called = ""
    /\ ret = NoResult

CallMul ==
    /\ called = ""
    /\ called' = "Mul"
    /\ ret' = Mul(args.l, args.r)
    /\ UNCHANGED args

CallMulv2 ==
    /\ called = ""
    /\ called' = "Mulv2"
    /\ ret' = Mulv2(args.l, args.r)
    /\ UNCHANGED args

CallMulNew ==
    /\ called = ""
    /\ called' = "MulNew"
    /\ ret' = MulNew(args.l, args.r)
    /\ UNCHANGED args

NextMul == CallMul \/ CallMulv2 \/ CallMulNew

SpecMul == InitMul /\ [][NextMul]_vars

\* Multipliers that divide 10^9, and two that do not.
MultiplierInputs == {1, 2, 3, 7, 10, 100, 1000, 15625, 1000000, 1000000000}

AmountInputs ==
    {ZFromInt(a) : a \in -MaxAmount..MaxAmount}
    \cup {Int64Of(123456, 789012345), ZNeg(Int64Of(123456, 789012345)),
          ZFromInt(999999999), ZFromInt(-999999999), ZFromInt(1999999999)}

InitConv ==
    /\ args \in {[amount |-> a, currencyMultiplier |-> ZFromInt(m), currencyCode |-> c] :
                    a \in AmountInputs, m \in MultiplierInputs, c \in CurrencyCodes}
    /\ called = ""
    /\ ret = NoResult

CallFromInt64 ==
    /\ called = ""
    /\ called' = "FromInt64"
    /\ ret' = [money |-> FromInt64(args.amount, args.currencyMultiplier,
                                   args.currencyCode)]
    /\ UNCHANGED args

\* The Money that FromInt64 returned, converted back with the same multiplier.
CallAsInt64 ==
    /\ called = "FromInt64"
    /\ called' = "AsInt64"
    /\ ret' = [money |-> ret.money,
               amount |-> AsInt64(ret.money, args.currencyMultiplier)]
    /\ UNCHANGED args

NextConv == CallFromInt64 \/ CallAsInt64

SpecConv == InitConv /\ [][NextConv]_vars

\* The values the test table of TestDivideBy100 passes.
TestInputs ==
    {ParseFloat(<<"1", "5", ".", "1", "1">>),
     ParseFloat(<<"0", ".", "1", "5", "1", "1">>),
     ParseFloat(<<"0", ".", "0", "0", "0", "3", "4", "3", "2">>),
     ParseFloat(<<"0", ".", "0", "0", "0", "0", "0", "3", "4", "3", "2">>),
     ParseFloat(<<"1", "2", "9", "3", "9", "2", ".", "4", "9", "3", "0", "9", "3">>),
     ParseFloat(<<"9", "9", "9", ".", "9">>),
     ParseFloat(<<"9", "9", "9", "9", "9", "9", "9", "9", "9", "9", ".", "9", "9">>),
     ParseFloat(<<"9", "9", "9", "9", "9", "9", "9", "9", "9", "9", "9">>)}

ShiftInputs ==
    {ParseDec(FALSE, BFromInt(n), -k) : n \in 0..MaxShiftN, k \in 0..MaxShiftK}
    \cup TestInputs

InitShift ==
    /\ args \in {[v |-> v] : v \in ShiftInputs}
    /\ called = ""
    /\ ret = NoResult

CallDivideBy100 ==
    /\ called = ""
    /\ called' = "DivideBy100"
    /\ ret' = DivideBy100(args.v)
    /\ UNCHANGED args

NextShift == CallDivideBy100

SpecShift == InitShift /\ [][NextShift]_vars

\* Units and nanos of both signs, nanos also at and beyond the range.
PredNanos ==
    {-2147483647 - 1, -1000000000, -999999999, -1, 0, 1, 999999999, 1000000000,
     2147483647}

PredInputs ==
    {Money(ZFromInt(u), n, "EUR") : u \in -MaxUnits..MaxUnits, n \in PredNanos}
    \cup {Nil}

InitPred ==
    /\ args \in {[a |-> a, b |-> b] : a \in PredInputs, b \in PredInputs}
    /\ called = ""
    /\ ret = NoResult

CallIsValid ==
    /\ called = ""
    /\ called' = "IsValid"
    /\ ret' = IsValid(args.a)
    /\ UNCHANGED args

CallIsPositive ==
    /\ called = ""
    /\ called' = "IsPositive"
    /\ ret' = IsPositive(args.a)
    /\ UNCHANGED args

CallIsGreaterThan ==
    /\ called = ""
    /\ called' = "IsGreaterThan"
    /\ ret' = IsGreaterThan(args.a, args.b)
    /\ UNCHANGED args

NextPred == CallIsValid \/ CallIsPositive \/ CallIsGreaterThan

SpecPred == InitPred /\ [][NextPred]_vars

(***************************************************************************)
(* The properties.  They speak of a Money by its fields and of its amount  *)
(* in nanos, units * 10^9 + nanos, not through the functions above.        *)
(***************************************************************************)
MulFamily == {"Mul", "Mulv2", "MulNew"}

Amount(m) == ZAdd(ZMul(m.Units, ZFromInt(1000000000)), ZFromInt(m.Nanos))

\* Units and nanos do not disagree in sign and |nanos| <= 999,999,999.
WellFormed(m) ==
    /\ -999999999 <= m.Nanos /\ m.Nanos <= 999999999
    /\ ~(ZIsPos(m.Units) /\ m.Nanos < 0)
    /\ ~(ZIsNeg(m.Units) /\ m.Nanos > 0)

Negative(r) == r.neg /\ r.m # <<>>

\* The exact value of every int64 product of the general algorithm lies in
\* the int64 range (the sums are then far inside it).
NoOverflow64 ==
    LET l == args.l
        d == ret.locals
        n == ZFromInt(l.Nanos)
    IN  /\ ZFits64(ZMul(l.Units, d.intMul))
        /\ ZFits64(ZMul(l.Units, d.decMul))
        /\ ZFits64(ZMul(n, d.intMul))
        /\ ZFits64(ZMul(n, d.decMul))

\* C1: every Money that Mul, Mulv2 or MulNew returns for a valid l and a
\* multiplier r >= 0, no 64-bit overflow occurring, is valid: its nanos lie in
\* [-999,999,999, 999,999,999] and units and nanos do not disagree in sign.
C1_NormalizationInvariant ==
    (called \in MulFamily /\ ret.err = NoError /\ WellFormed(args.l)
        /\ ~Negative(args.r) /\ (ret.general => NoOverflow64))
    => WellFormed(ret.money)

\* C2: a Money that violates sign-matching or the nanos range is refused with
\* ErrInvalidValue whatever the multiplier, r < 0 and r == 0 included.
C2_InvalidOperandAnyMultiplier ==
    (called \in MulFamily /\ ~WellFormed(args.l))
    => (ret.err = ErrInvalidValue /\ ret.money = Nil)

\* C2, as the code has it: a Money that violates sign-matching or the nanos
\* range is refused with ErrInvalidValue for every multiplier r >= 0, r == 0
\* included; for r < 0 the multiplier is refused first.
C2_InvalidOperandRejected ==
    (called \in MulFamily /\ ~WellFormed(args.l))
    => /\ ret.money = Nil
       /\ ret.err = IF Negative(args.r) THEN ErrInvalidMultiplierProvided
                    ELSE ErrInvalidValue

C2_Witness ==
    /\ called = "Mul"
    /\ args.l.Nanos = 1000000000
    /\ FIsZero(args.r)
    /\ ret.err = ErrInvalidValue

C5_ConversionRoundTrip ==
    (called \in {"FromInt64", "AsInt64"}
        /\ ZIsZero(ZRem(ZFromInt(1000000000), args.currencyMultiplier)))
    => /\ WellFormed(ret.money)
       /\ ret.money.CurrencyCode = args.currencyCode
       /\ called = "AsInt64" => ret.amount = args.amount

C5_Witness ==
    /\ called = "AsInt64"
    /\ args.amount = ZFromInt(-7)
    /\ args.currencyMultiplier = ZFromInt(100)
    /\ ret.money.Units = ZZero
    /\ ret.money.Nanos = -70000000
    /\ ret.amount = ZFromInt(-7)

\* The float64 nearest to the decimal digits of v with the decimal point two
\* places further left.
ShiftedLeftTwo(v) ==
    LET digs == ShortestDigits(v)
    IN  IF FIsZero(v) THEN FZero
        ELSE ParseDec(FALSE, BFromDigits(digs.d), digs.dp - Len(digs.d) - 2)

\* C6: for every non-negative v, integer-valued ones included, DivideBy100(v)
\* returns normally, and returns the value whose decimal digits are those of
\* v with the decimal point moved two places to the left.
C6_DecimalShiftExact ==
    called = "DivideBy100"
    => (~ret.panic /\ ret.value = ShiftedLeftTwo(args.v))

\* C7: for a valid l and a multiplier decomposed as (intMul >= 0, decMul,
\* powerOf10) with powerOf10 a power of ten in 1..10^9 and
\* 0 <= decMul < powerOf10, no 64-bit overflow occurring, the amount of the
\* Money that Mul returns is the amount of l times
\* (intMul * powerOf10 + decMul) / powerOf10, truncated toward zero.
C7_ExactProduct ==
    (called = "Mul" /\ ret.general /\ WellFormed(args.l)
        /\ ~ZIsNeg(ret.locals.intMul) /\ ~ZIsNeg(ret.locals.decMul)
        /\ ZCmp(ret.locals.decMul, ret.locals.powerOf10) < 0
        /\ ret.locals.powerOf10 \in {ZFromInt(10 ^ k) : k \in 0..9}
        /\ NoOverflow64)
    => Amount(ret.money)
         = ZQuo(ZMul(Amount(args.l),
                     ZAdd(ZMul(ret.locals.intMul, ret.locals.powerOf10),
                          ret.locals.decMul)),
                ret.locals.powerOf10)

\* The quotient num / den, den > 0, rounded to the nearest integer, an exact
\* half upward.
RoundHalfUp(num, den) ==
    LET n2 == ZAdd(ZMul(num, ZFromInt(2)), den)
        d2 == ZMul(den, ZFromInt(2))
        q  == ZQuo(n2, d2)
    IN  IF ZIsNeg(ZRem(n2, d2)) THEN ZSub(q, ZFromInt(1)) ELSE q

\* C8: in Mulv2, for a valid l and a decomposed multiplier with decMul # 0,
\* the term added to the nanos for l.nanos * decMul / powerOf10 is that
\* quotient rounded to the nearest integer, an exact half rounded up, for
\* negative as well as positive l.nanos.
C8_RoundHalfUpCrossTerm ==
    (called = "Mulv2" /\ ret.general /\ WellFormed(args.l)
        /\ ~ZIsZero(ret.locals.decMul))
    => ret.locals.nanosMul
         = RoundHalfUp(ZMul(ZFromInt(args.l.Nanos), ret.locals.decMul),
                       ret.locals.powerOf10)

\* C9: for every units and nanos, nanos outside the range included,
\* IsPositive(m) is true exactly when m is valid and units > 0, or units is 0
\* and nanos > 0.
C9_IsPositiveIffValidAndPositive ==
    (called = "IsPositive" /\ args.a # Nil)
    => ret = (/\ WellFormed(args.a)
              /\ \/ ZIsPos(args.a.Units)
                 \/ (ZIsZero(args.a.Units) /\ args.a.Nanos > 0))

\* C10: for valid a and b IsGreaterThan(a, b) is true exactly when the
\* amount of a is greater than the amount of b; with an absent a it is false
\* for every b, with a present a and an absent b it is true.
C10_GreaterThanIsNumericOrder ==
    called = "IsGreaterThan"
    => /\ (args.a # Nil /\ args.b # Nil /\ WellFormed(args.a) /\ WellFormed(args.b))
          => ret = (ZCmp(Amount(args.a), Amount(args.b)) > 0)
       /\ args.a = Nil => ret = FALSE
       /\ (args.a # Nil /\ args.b = Nil) => ret = TRUE

C10_Witness ==
    /\ called = "IsGreaterThan"
    /\ args.a # Nil /\ args.b # Nil
    /\ WellFormed(args.a) /\ WellFormed(args.b)
    /\ ZCmp(args.a.Units, args.b.Units) < 0
    /\ args.a.Nanos > args.b.Nanos
    /\ ret = FALSE
====
